---- MODULE Spec2Model ----
(***************************************************************************)
(* Othello rules engine, search bot and HTTP handlers of ai-server.        *)
(*   board.rs : Direction, Disk, Position, Board                           *)
(*   game.rs  : Player, Action, Phase, Game                                *)
(*   bot.rs   : Bot (decide / min_value / max_value / evaluate)            *)
(*   main.rs  : the /api handlers                                          *)
(* Option<Disk> and Option<Player> are the strings "None", "Dark", ...;    *)
(* Option<Position> is the empty tuple or the one-element tuple <<pos>>.   *)
(***************************************************************************)
EXTENDS Integers, Sequences, FiniteSets, TLC

VARIABLES
    build,    \* "debug" | "release": whether integer overflow aborts or wraps
    game,     \* the Game value under consideration
    prev,     \* the Game the last operation was applied to
    last,     \* the last operation: [op, player, placement, ...]
    out,      \* what the last call or handler returned
    moves,    \* number of result() applications since the game was created
    rec,      \* number of moves of RecordedGame replayed so far, -1 once off it
    origin,   \* "new" | "parse": how the game was created
    bot,      \* the Bot
    req,      \* the query parameters and Origin header of the last HTTP request
    grid,     \* the grid of a Board used on its own
    hist,     \* the calls made on that Board: [op, grid (before), pos, disk, text, ok]
    calls     \* number of decide calls made on the Bot

vars == <<build, game, prev, last, out, moves, rec, origin, bot, req, grid, hist, calls>>

-----------------------------------------------------------------------------
(* board.rs : constants                                                     *)

BOARD_SIZE == 8

DARK_CHAR == "D"
LIGHT_CHAR == "L"
EMPTY_CHAR == "E"

POSITION_WEIGHTS ==
    << <<100, -10,  30,  20,  20,  30, -10, 100>>,
       <<-10, -10,   1,   2,   2,   1, -10, -10>>,
       << 30,   1,  10,   6,   6,  10,   1,  30>>,
       << 20,   2,   6,   0,   0,   6,   2,  20>>,
       << 20,   2,   6,   0,   0,   6,   2,  20>>,
       << 30,   1,  10,   6,   6,  10,   1,  30>>,
       <<-10, -10,   1,   2,   2,   1, -10, -10>>,
       <<100, -10,  30,  20,  20,  30, -10, 100>> >>

\* usize arithmetic is modulo 2^w; TLC's integers are 32 bit wide, so the model
\* keeps the wrap-around with a modulus far above every board coordinate.
USIZE_MODULUS == 65536

AsUsize(x) == x % USIZE_MODULUS

Index == 0 .. (BOARD_SIZE - 1)

(* Direction::all : the fixed enumeration order                             *)
DirectionAll ==
    <<"North", "NorthEast", "East", "SouthEast",
      "South", "SouthWest", "West", "NorthWest">>

(* the offset table of Board::neighbour                                     *)
DirOffset(dir) ==
    CASE dir = "North"     -> <<-1, 0>>
      [] dir = "NorthEast" -> <<-1, 1>>
      [] dir = "East"      -> <<0, 1>>
      [] dir = "SouthEast" -> <<1, 1>>
      [] dir = "South"     -> <<1, 0>>
      [] dir = "SouthWest" -> <<1, -1>>
      [] dir = "West"      -> <<0, -1>>
      [] dir = "NorthWest" -> <<-1, -1>>

(* Disk::parse : Ok(disk) or a ParseError                                   *)
DiskParse(ch) ==
    CASE ch = DARK_CHAR  -> [ok |-> TRUE, disk |-> "Dark"]
      [] ch = LIGHT_CHAR -> [ok |-> TRUE, disk |-> "Light"]
      [] OTHER           -> [ok |-> FALSE, disk |-> "None"]

(* Display for Disk                                                         *)
DiskChar(d) == IF d = "Dark" THEN DARK_CHAR ELSE LIGHT_CHAR

PositionNew(row, col) == [row |-> row, col |-> col]

is_inbound(pos) == pos.row < BOARD_SIZE /\ pos.col < BOARD_SIZE

weight(pos) == POSITION_WEIGHTS[pos.row + 1][pos.col + 1]

\* the decimal texts str::parse::<usize> is given here, by value
UsizeTexts == <<"0", "1", "2", "3", "4", "5", "6", "7", "8">>

(* s.parse::<usize>() : Ok(value) or Err                                    *)
ParseUsize(field) ==
    IF \E i \in 1 .. Len(UsizeTexts) : UsizeTexts[i] = field
    THEN [ok |-> TRUE, val |-> (CHOOSE i \in 1 .. Len(UsizeTexts) : UsizeTexts[i] = field) - 1]
    ELSE [ok |-> FALSE, val |-> 0]

(* Position::parse over the fields of s.split(","): the fields that parse   *)
(* are kept, and exactly two of them make a position                        *)
PositionParse(fields) ==
    LET oks == SelectSeq(fields, LAMBDA f : ParseUsize(f).ok)
    IN  IF Len(oks) = 2
        THEN [ok |-> TRUE,
              pos |-> PositionNew(ParseUsize(oks[1]).val, ParseUsize(oks[2]).val)]
        ELSE [ok |-> FALSE, pos |-> PositionNew(0, 0)]

(* Position::all, as a set (every use is order-independent)                 *)
PositionAll == {PositionNew(i, j) : i \in Index, j \in Index}

\* the start with the two colours exchanged
BoardNew_Exchanged ==
    [r \in Index |-> [c \in Index |->
        IF r \in {3, 4} /\ c \in {3, 4}
        THEN (IF r = c THEN "Light" ELSE "Dark")
        ELSE "None"]]

(* Board::new                                                               *)
BoardNew ==
    LET mid == (BOARD_SIZE \div 2) - 1
    IN  [r \in Index |-> [c \in Index |->
            IF r = mid /\ c = mid THEN "Dark"
            ELSE IF r = mid + 1 /\ c = mid THEN "Light"
            ELSE IF r = mid /\ c = mid + 1 THEN "Light"
            ELSE IF r = mid + 1 /\ c = mid + 1 THEN "Dark"
            ELSE "None"]]

(* Board::disk                                                              *)
disk(board, pos) == board[pos.row][pos.col]

SetCell(board, pos, d) ==
    [board EXCEPT ![pos.row] = [board[pos.row] EXCEPT ![pos.col] = d]]

\* the place that does not test the cell
place_Overwrites(board, d, pos) == [ok |-> TRUE, board |-> SetCell(board, pos, d)]

(* Board::place : Err(InvalidArgument) on an occupied cell                  *)
place(board, d, pos) ==
    IF disk(board, pos) # "None"
    THEN [ok |-> FALSE, board |-> board]
    ELSE [ok |-> TRUE, board |-> SetCell(board, pos, d)]

(* Board::positions, as a set                                               *)
positions(board, d) == {p \in PositionAll : disk(board, p) = d}

(* Board::flip : Err(InvalidArgument) on an empty cell                      *)
flip(board, pos) ==
    IF disk(board, pos) = "None"
    THEN [ok |-> FALSE, board |-> board]
    ELSE [ok |-> TRUE,
          board |-> SetCell(board, pos,
                            IF disk(board, pos) = "Dark" THEN "Light" ELSE "Dark")]

\* the neighbour that wraps around the edges of the board
neighbour_Wrapping(pos, dir) ==
    <<PositionNew((pos.row + DirOffset(dir)[1]) % BOARD_SIZE,
                  (pos.col + DirOffset(dir)[2]) % BOARD_SIZE)>>

(* Board::neighbour : the signed sum is cast back to usize before the       *)
(* bounds test                                                              *)
neighbour(pos, dir) ==
    LET offset == DirOffset(dir)
        n == PositionNew(AsUsize(pos.row + offset[1]), AsUsize(pos.col + offset[2]))
    IN  IF is_inbound(n) THEN <<n>> ELSE <<>>

-----------------------------------------------------------------------------
(* game.rs                                                                  *)

BOT_CHAR == "B"
HUMAN_CHAR == "H"

PLACEMENT_WEIGHTS == <<5, 4, 2>>
MOBILITY_WEIGHTS == <<5, 4, 3>>
NUM_DISKS_WEIGHTS == <<-1, -1, 0>>

Players == {"Bot", "Human"}

(* Player::parse                                                            *)
PlayerParse(ch) ==
    CASE ch = BOT_CHAR   -> [ok |-> TRUE, player |-> "Bot"]
      [] ch = HUMAN_CHAR -> [ok |-> TRUE, player |-> "Human"]
      [] OTHER           -> [ok |-> FALSE, player |-> "None"]

\* the opponent that is the player itself
opponent_Same(player) == player

(* Player::opponent                                                         *)
opponent(player) == IF player = "Bot" THEN "Human" ELSE "Bot"

(* Player::disk                                                             *)
PlayerDisk(player) == IF player = "Bot" THEN "Light" ELSE "Dark"

(* Display for Player                                                       *)
PlayerChar(player) == IF player = "Bot" THEN BOT_CHAR ELSE HUMAN_CHAR

(* Action::parse                                                            *)
ActionParse(player, placement) == [player |-> player, placement |-> placement]

(* Phase::new                                                               *)
PhaseNew(turn) ==
    IF turn < 20 THEN "Early" ELSE IF turn < 40 THEN "Mid" ELSE "End"

(* Phase::to_index (0-based in the source, tuples are 1-based here)         *)
to_index(phase) ==
    CASE phase = "Early" -> 0
      [] phase = "Mid"   -> 1
      [] OTHER           -> 2

\* ActionsWalk accepting the empty cell next to the player's own disk
\* (distance > 0 in place of distance > 1)
RECURSIVE ActionsWalk_AdjacentEmpty(_, _, _, _, _)
ActionsWalk_AdjacentEmpty(board, player, walker, direction, distance) ==
    IF walker = <<>> THEN {}
    ELSE LET d == disk(board, walker[1])
         IN  IF d = "None"
             THEN (IF distance > 0 THEN {walker[1]} ELSE {})
             ELSE IF d # PlayerDisk(opponent(player)) THEN {}
             ELSE ActionsWalk_AdjacentEmpty(board, player,
                      neighbour(walker[1], direction), direction, distance + 1)

(* the walk of Game::actions from one disk in one direction: the set of     *)
(* placements it inserts (none or one)                                      *)
RECURSIVE ActionsWalk(_, _, _, _, _)
ActionsWalk(board, player, walker, direction, distance) ==
    IF walker = <<>> THEN {}
    ELSE LET d == disk(board, walker[1])
         IN  IF d = "None"
             THEN (IF distance > 1 THEN {walker[1]} ELSE {})
             ELSE IF d # PlayerDisk(opponent(player)) THEN {}
             ELSE ActionsWalk(board, player, neighbour(walker[1], direction),
                              direction, distance + 1)

(* the placements of Game::actions (the HashSet's elements)                 *)
ActionPlacements(board, player) ==
    UNION {ActionsWalk(board, player, neighbour(position, DirectionAll[i]),
                       DirectionAll[i], 1) :
           position \in positions(board, PlayerDisk(player)),
           i \in 1 .. Len(DirectionAll)}

\* the actions that are all the empty cells
actions_AllEmpty(g, player) ==
    {[player |-> player, placement |-> p] : p \in positions(g.board, "None")}

(* Game::actions                                                            *)
actions(g, player) ==
    {[player |-> player, placement |-> p] : p \in ActionPlacements(g.board, player)}

\* the game that is over only when the board is full
is_over_FullOnly(g) == positions(g.board, "None") = {}

(* Game::is_over                                                            *)
is_over(g) == actions(g, "Bot") = {} /\ actions(g, "Human") = {}

\* set_winner with the two comparisons exchanged
set_winner_Swapped(g) ==
    LET num_bot_disks == Cardinality(positions(g.board, PlayerDisk("Bot")))
        num_human_disks == Cardinality(positions(g.board, PlayerDisk("Human")))
    IN  [g EXCEPT !.winner =
            IF num_bot_disks < num_human_disks THEN "Bot"
            ELSE IF num_human_disks < num_bot_disks THEN "Human"
            ELSE "None"]

(* Game::set_winner : the winner it stores                                  *)
set_winner(g) ==
    LET num_bot_disks == Cardinality(positions(g.board, PlayerDisk("Bot")))
        num_human_disks == Cardinality(positions(g.board, PlayerDisk("Human")))
    IN  [g EXCEPT !.winner =
            IF num_bot_disks > num_human_disks THEN "Bot"
            ELSE IF num_human_disks > num_bot_disks THEN "Human"
            ELSE "None"]

(* Game::new                                                                *)
GameNew ==
    [board |-> BoardNew, current_player |-> "Bot",
     phase |-> PhaseNew(0), winner |-> "None"]

INITIAL_NUM_DISKS == 4

(* Game::parse.  The turn is a usize difference: with fewer than four disks *)
(* it underflows, which aborts a build with overflow checks and wraps in a  *)
(* build without them.                                                      *)
GameParse(board, current_player, bld) ==
    LET n == Cardinality(positions(board, "Dark"))
             + Cardinality(positions(board, "Light"))
        turn == AsUsize(n - INITIAL_NUM_DISKS)
        g == [board |-> board, current_player |-> current_player,
              phase |-> PhaseNew(turn), winner |-> "None"]
    IN  IF n < INITIAL_NUM_DISKS /\ bld = "debug"
        THEN [ok |-> FALSE, game |-> g]
        ELSE [ok |-> TRUE, game |-> IF is_over(g) THEN set_winner(g) ELSE g]

(* the inner while loop of Game::result: collects the opponent disks from   *)
(* walker on and returns the cell the walk stopped at                       *)
RECURSIVE ResultWalk(_, _, _, _, _)
ResultWalk(board, action, walker, dir, path) ==
    IF disk(board, walker) = PlayerDisk(opponent(action.player))
    THEN LET nb == neighbour(walker, dir)
         IN  IF nb = <<>>
             THEN [walker |-> walker, path |-> Append(path, walker)]
             ELSE ResultWalk(board, action, nb[1], dir, Append(path, walker))
    ELSE [walker |-> walker, path |-> path]

\* the flip loop that takes the disks of the path off the board
FlipPath_Empties(board, path) ==
    [r \in Index |-> [c \in Index |->
        IF \E i \in 1 .. Len(path) : path[i] = PositionNew(r, c)
        THEN "None" ELSE board[r][c]]]

(* for pos in path { board.flip(&pos).unwrap() }                            *)
RECURSIVE FlipPath(_, _)
FlipPath(board, path) ==
    IF path = <<>> THEN board
    ELSE FlipPath(flip(board, Head(path)).board, Tail(path))

\* ResultDir without the test that the walk stopped on the player's own disk
ResultDir_NoOwnDiskTest(board, action, dir) ==
    LET nb == neighbour(action.placement, dir)
    IN  IF nb = <<>> THEN board
        ELSE FlipPath(board, ResultWalk(board, action, nb[1], dir, <<>>).path)

(* one iteration of the direction loop of Game::result                      *)
ResultDir(board, action, dir) ==
    LET nb == neighbour(action.placement, dir)
    IN  IF nb = <<>> THEN board
        ELSE LET w == ResultWalk(board, action, nb[1], dir, <<>>)
             IN  IF disk(board, w.walker) = PlayerDisk(action.player)
                 THEN FlipPath(board, w.path)
                 ELSE board

(* the direction loop of Game::result, from the i-th direction on           *)
RECURSIVE ResultDirs(_, _, _)
ResultDirs(board, action, i) ==
    IF i > Len(DirectionAll) THEN board
    ELSE ResultDirs(ResultDir(board, action, DirectionAll[i]), action, i + 1)

(* Game::result, for an action whose placement is an empty in-bounds cell   *)
result(g, action) ==
    LET placed == place(g.board, PlayerDisk(action.player), action.placement).board
        g2 == [g EXCEPT !.board = ResultDirs(placed, action, 1),
                        !.current_player = opponent(action.player)]
    IN  IF is_over(g2) THEN set_winner(g2) ELSE g2

(* the unwrap of place and the grid index in Game::result abort             *)
ResultAborts(g, action) ==
    \/ ~is_inbound(action.placement)
    \/ ~place(g.board, PlayerDisk(action.player), action.placement).ok

(* Game::evaluate                                                           *)
RECURSIVE SumWeights(_)
SumWeights(ps) ==
    IF ps = {} THEN 0
    ELSE LET p == CHOOSE q \in ps : TRUE IN weight(p) + SumWeights(ps \ {p})

evaluate(g) ==
    LET phase_index == to_index(g.phase) + 1
        bot_positions == positions(g.board, PlayerDisk("Bot"))
        human_positions == positions(g.board, PlayerDisk("Human"))
    IN  PLACEMENT_WEIGHTS[phase_index]
            * (SumWeights(bot_positions) - SumWeights(human_positions))
        + MOBILITY_WEIGHTS[phase_index]
            * (Cardinality(actions(g, "Bot")) - Cardinality(actions(g, "Human")))
        + NUM_DISKS_WEIGHTS[phase_index]
            * (Cardinality(bot_positions) - Cardinality(human_positions))

(* the board built in the initialiser of MAX_BEST_EVALUATION                *)
AllLightBoard ==
    [r \in Index |-> [c \in Index |->
        LET pos == PositionNew(r, c)
        IN  CASE disk(BoardNew, pos) = "Dark"  -> disk(flip(BoardNew, pos).board, pos)
              [] disk(BoardNew, pos) = "None"  ->
                     disk(place(BoardNew, PlayerDisk("Bot"), pos).board, pos)
              [] OTHER -> disk(BoardNew, pos)]]

\* the constant evaluated with the weights of the first phase
max_best_evaluation_EarlyPhase ==
    evaluate([GameParse(AllLightBoard, "Bot", "release").game EXCEPT !.phase = "Early"])

(* MAX_BEST_EVALUATION : Game::parse(board, Player::default()).evaluate()   *)
max_best_evaluation == evaluate(GameParse(AllLightBoard, "Bot", "release").game)

min_best_evaluation == -max_best_evaluation

\* utility scoring a draw like a Human win
utility_DrawAsLoss(g) ==
    CASE g.winner = "Bot" -> max_best_evaluation
      [] OTHER            -> min_best_evaluation

(* Game::utility, requires is_over                                          *)
utility(g) ==
    CASE g.winner = "Bot"  -> max_best_evaluation
      [] g.winner # "None" -> min_best_evaluation
      [] OTHER             -> 0

-----------------------------------------------------------------------------
(* bot.rs.  A Bot is [depth_limit, game, minimax_cache, num_nodes_expanded];*)
(* min_value, max_value and evaluate take &mut self, so each returns the    *)
(* Bot it leaves behind together with its value.                            *)

(* Bot::new                                                                 *)
BotNew(intelligence) ==
    [depth_limit |-> intelligence, game |-> GameNew,
     minimax_cache |-> <<>>, num_nodes_expanded |-> 0]

(* Action::default() and Game::default() (derived: an all-empty grid)       *)
ActionDefault == ActionParse("Bot", PositionNew(0, 0))

GameDefault ==
    [board |-> [r \in Index |-> [c \in Index |-> "None"]],
     current_player |-> "Bot", phase |-> "Early", winner |-> "None"]

\* The iteration order of the HashSet built by Game::actions is unspecified.
\* An order is one of these keys; the set is enumerated by ascending key.
OrderKey(pos, ord) ==
    CASE ord = 1 -> pos.row * BOARD_SIZE + pos.col
      [] ord = 2 -> - (pos.row * BOARD_SIZE + pos.col)
      [] ord = 3 -> pos.col * BOARD_SIZE + pos.row
      [] OTHER   -> - (pos.col * BOARD_SIZE + pos.row)

RECURSIVE Enumerate(_, _)
Enumerate(acts, ord) ==
    IF acts = {} THEN <<>>
    ELSE LET first == CHOOSE a \in acts :
                 \A b \in acts : OrderKey(a.placement, ord) <= OrderKey(b.placement, ord)
         IN  <<first>> \o Enumerate(acts \ {first}, ord)

Max(a, b) == IF a >= b THEN a ELSE b
Min(a, b) == IF a <= b THEN a ELSE b

\* the memo that stores another value than the one it returns
BotEvaluate_StoresOther(self, g) ==
    IF g \in DOMAIN self.minimax_cache
    THEN [value |-> self.minimax_cache[g], bot |-> self]
    ELSE [value |-> evaluate(g),
          bot |-> [self EXCEPT !.minimax_cache = @ @@ (g :> (evaluate(g) + 1))]]

(* Bot::evaluate : the memoised static evaluation                           *)
BotEvaluate(self, g) ==
    IF g \in DOMAIN self.minimax_cache
    THEN [value |-> self.minimax_cache[g], bot |-> self]
    ELSE [value |-> evaluate(g),
          bot |-> [self EXCEPT !.minimax_cache = @ @@ (g :> evaluate(g))]]

RECURSIVE min_value(_, _, _, _, _, _)
RECURSIVE max_value(_, _, _, _, _, _)
RECURSIVE MinLoop(_, _, _, _, _, _, _, _, _)
RECURSIVE MaxLoop(_, _, _, _, _, _, _, _, _)

(* the body of the for loop of Bot::min_value after the recursive call has  *)
(* returned r = [value, bot]                                                *)
MinLoopBody(r, g, acts, i, max_best, min_best, depth, min_best_here, ord) ==
    LET here == IF r.value < min_best_here THEN r.value ELSE min_best_here
    IN  IF here <= min_best THEN [value |-> here, bot |-> r.bot]
        ELSE MinLoop(r.bot, g, acts, i + 1, max_best, Min(min_best, here),
                     depth, here, ord)

(* the for loop of Bot::min_value from the i-th action on                   *)
MinLoop(self, g, acts, i, max_best, min_best, depth, min_best_here, ord) ==
    IF i > Len(acts) THEN [value |-> min_best_here, bot |-> self]
    ELSE MinLoopBody(
             max_value(self, result(g, acts[i]), max_best, min_best, depth + 1, ord),
             g, acts, i, max_best, min_best, depth, min_best_here, ord)

(* Bot::min_value                                                           *)
min_value(self, g, max_best, min_best, depth, ord) ==
    IF is_over(g) THEN [value |-> utility(g), bot |-> self]
    ELSE IF depth > self.depth_limit THEN BotEvaluate(self, g)
    ELSE MinLoop([self EXCEPT !.num_nodes_expanded = @ + 1], g,
                 Enumerate(actions(g, "Human"), ord), 1,
                 max_best, min_best, depth, max_best_evaluation, ord)

(* the body of the for loop of Bot::max_value after the recursive call has  *)
(* returned r = [value, bot]                                                *)
MaxLoopBody(r, g, acts, i, max_best, min_best, depth, max_best_here, ord) ==
    LET here == IF r.value > max_best_here THEN r.value ELSE max_best_here
    IN  IF here >= min_best THEN [value |-> here, bot |-> r.bot]
        ELSE MaxLoop(r.bot, g, acts, i + 1, Max(max_best, here), min_best,
                     depth, here, ord)

(* the for loop of Bot::max_value from the i-th action on                   *)
MaxLoop(self, g, acts, i, max_best, min_best, depth, max_best_here, ord) ==
    IF i > Len(acts) THEN [value |-> max_best_here, bot |-> self]
    ELSE MaxLoopBody(
             min_value(self, result(g, acts[i]), max_best, min_best, depth + 1, ord),
             g, acts, i, max_best, min_best, depth, max_best_here, ord)

(* Bot::max_value                                                           *)
max_value(self, g, max_best, min_best, depth, ord) ==
    IF is_over(g) THEN [value |-> utility(g), bot |-> self]
    ELSE IF depth > self.depth_limit THEN BotEvaluate(self, g)
    ELSE MaxLoop([self EXCEPT !.num_nodes_expanded = @ + 1], g,
                 Enumerate(actions(g, "Bot"), ord), 1,
                 max_best, min_best, depth, min_best_evaluation, ord)

RECURSIVE DecideLoop(_, _, _, _, _, _)

(* the body of the for loop of Bot::decide for act, after result = res and  *)
(* min_value has returned r = [value, bot]; st holds the locals, and in      *)
(* trace the actions taken so far with the values min_value returned        *)
DecideLoopBody(r, res, act, g, acts, i, st, ord) ==
    LET better == r.value >= st.minimax_value
        minimax_value == IF better THEN r.value ELSE st.minimax_value
    IN  DecideLoop(r.bot, g, acts, i + 1,
            [bot_best |-> Max(st.bot_best, minimax_value),
             minimax_value |-> minimax_value,
             num_actions |-> st.num_actions + 1,
             decided |-> st.decided \/ better,
             best_action |-> IF better THEN act ELSE st.best_action,
             best_result |-> IF better THEN res ELSE st.best_result,
             trace |-> Append(st.trace, [action |-> act, value |-> r.value])],
            ord)

(* the call of min_value in the for loop of Bot::decide                     *)
DecideLoopCall(self, res, act, g, acts, i, st, ord) ==
    DecideLoopBody(min_value(self, res, st.bot_best, max_best_evaluation, 1, ord),
                   res, act, g, acts, i, st, ord)

(* the for loop of Bot::decide from the i-th action on                      *)
DecideLoop(self, g, acts, i, st, ord) ==
    IF i > Len(acts) THEN [st |-> st, bot |-> self]
    ELSE DecideLoopCall(self, result(g, acts[i]), acts[i], g, acts, i, st, ord)

(* the end of Bot::decide: the InvalidArgument, the assertion, the Ok       *)
DecideReturn(d) ==
    [kind |-> IF d.st.num_actions = 0 THEN "Err"
              ELSE IF ~d.st.decided THEN "Panic"
              ELSE "Ok",
     action |-> d.st.best_action,
     result |-> d.st.best_result,
     bot |-> d.bot,
     trace |-> d.st.trace]

(* Bot::decide : "Ok" with (best_action, best_result), "Err" for the        *)
(* InvalidArgument, "Panic" when an assertion fails                         *)
decide(self, g, ord) ==
    IF self.game.current_player # "Bot"
    THEN [kind |-> "Panic", action |-> ActionDefault, result |-> GameDefault, bot |-> self,
          trace |-> <<>>]
    ELSE DecideReturn(
             DecideLoop([self EXCEPT !.num_nodes_expanded = 1], g,
                        Enumerate(actions(g, "Bot"), ord), 1,
                        [bot_best |-> min_best_evaluation,
                         minimax_value |-> min_best_evaluation,
                         num_actions |-> 0,
                         decided |-> FALSE,
                         best_action |-> ActionDefault,
                         best_result |-> GameDefault,
                         trace |-> <<>>],
                        ord))

-----------------------------------------------------------------------------
(* board.rs : the text form                                                 *)

(* the buf of Display for Board: the characters of each row, then a line    *)
(* break                                                                    *)
BoardBuf(board) ==
    [k \in 1 .. BOARD_SIZE * (BOARD_SIZE + 1) |->
        LET i == (k - 1) \div (BOARD_SIZE + 1)
            j == (k - 1) % (BOARD_SIZE + 1)
        IN  IF j = BOARD_SIZE THEN "\n"
            ELSE IF board[i][j] = "None" THEN EMPTY_CHAR
            ELSE DiskChar(board[i][j])]

WhiteSpace == {" ", "\n", "\t", "\r"}

(* str::trim : the text without its leading and trailing white space        *)
Trim(s) ==
    LET solid == {i \in 1 .. Len(s) : s[i] \notin WhiteSpace}
    IN  IF solid = {} THEN <<>>
        ELSE SubSeq(s, CHOOSE i \in solid : \A j \in solid : i <= j,
                       CHOOSE i \in solid : \A j \in solid : i >= j)

(* str::lines : the pieces between line breaks, without a final empty piece *)
(* and without a carriage return before the break                           *)
Lines(s) ==
    LET breaks == {i \in 1 .. Len(s) : s[i] = "\n"}
        n == Cardinality(breaks) + (IF Len(s) > 0 /\ s[Len(s)] # "\n" THEN 1 ELSE 0)
        end(k) == IF k = 0 THEN 0
                  ELSE IF k <= Cardinality(breaks)
                       THEN CHOOSE i \in breaks : Cardinality({j \in breaks : j < i}) = k - 1
                  ELSE Len(s) + 1
        piece(k) == SubSeq(s, end(k - 1) + 1, end(k) - 1)
    IN  [k \in 1 .. n |->
            IF Len(piece(k)) > 0 /\ piece(k)[Len(piece(k))] = "\r"
            THEN SubSeq(piece(k), 1, Len(piece(k)) - 1)
            ELSE piece(k)]

(* Display for Board, as the lines of the text it writes: buf.trim()        *)
BoardToString(board) == Lines(Trim(BoardBuf(board)))

(* the inner loop of Board::parse over line i, from character j on: "Ok"   *)
(* with the board, "Err" (the ParseError of Disk::parse) or "Panic" (the    *)
(* grid index out of range)                                                 *)
RECURSIVE BoardParseLine(_, _, _, _)
BoardParseLine(line, i, j, board) ==
    IF j > Len(line) THEN [kind |-> "Ok", board |-> board]
    ELSE LET ch == line[j]
             parsed == DiskParse(ch)
         IN  IF ch # EMPTY_CHAR /\ ~parsed.ok THEN [kind |-> "Err", board |-> board]
             ELSE IF i > BOARD_SIZE \/ j > BOARD_SIZE
                  THEN [kind |-> "Panic", board |-> board]
             ELSE BoardParseLine(line, i, j + 1,
                      SetCell(board, PositionNew(i - 1, j - 1),
                              IF ch = EMPTY_CHAR THEN "None" ELSE parsed.disk))

(* the outer loop of Board::parse over data.lines(), from line i on         *)
RECURSIVE BoardParseFrom(_, _, _)
BoardParseFrom(data, i, board) ==
    IF i > Len(data) THEN [kind |-> "Ok", board |-> board]
    ELSE LET r == BoardParseLine(data[i], i, 1, board)
         IN  IF r.kind # "Ok" THEN r ELSE BoardParseFrom(data, i + 1, r.board)

\* the parse that starts from an empty grid instead of Board::new()
BoardParse_FromEmpty(data) ==
    BoardParseFrom(data, 1, [r \in Index |-> [c \in Index |-> "None"]])

(* Board::parse over data.lines()                                           *)
BoardParse(data) == BoardParseFrom(data, 1, BoardNew)

-----------------------------------------------------------------------------
(* main.rs : the handlers.  A handler that aborts is answered by the        *)
(* framework with status 500.                                               *)

\* kind: "none" (nothing returned yet), "Ok", "Err" or "Panic" (the call aborted)
\* status, body: the HTTP status and plain-text body; decision, board, winner:
\* the JSON fields ("absent": no such field, "null": JSON null); inner: what
\* Bot::decide returned inside the handler
\* headers: the Access-Control-* headers of the response, as <<name, value>>
\* pairs; position: the Option<Position> a Board or Position call returned
NoOut ==
    [kind |-> "none", status |-> 0, body |-> "", decision |-> <<>>,
     result |-> <<>>, board |-> <<>>, winner |-> "absent", value |-> 0, acts |-> {},
     inner |-> "none", headers |-> {}, position |-> <<>>]

\* route: the path below /api; origin: the Origin header, <<>> when absent
NoReq ==
    [route |-> "", board |-> <<>>, position |-> <<>>, player |-> <<>>,
     intelligence |-> 0, origin |-> <<>>]

BadRequest(body) == [NoOut EXCEPT !.kind = "Ok", !.status = 400, !.body = body]

Aborted == [NoOut EXCEPT !.kind = "Panic", !.status = 500]

(* serialize_result : the board text, and the winner once the game is over  *)
serialize_result(g) ==
    [board |-> BoardToString(g.board),
     winner |-> IF is_over(g)
                THEN (IF g.winner = "None" THEN "null" ELSE PlayerChar(g.winner))
                ELSE "absent"]

(* fn result(board, position, player)                                       *)
HandleResult(data, position, player, bld) ==
    LET b == BoardParse(data)
    IN  IF b.kind = "Panic" THEN Aborted
        ELSE IF b.kind = "Err" THEN BadRequest("Invalid board")
        ELSE IF player = <<>> THEN BadRequest("Invalid player")
        ELSE IF ~PlayerParse(player[1]).ok THEN BadRequest("Invalid player")
        ELSE LET pl == PlayerParse(player[1]).player
                 g == GameParse(b.board, pl, bld)
                 pos == PositionParse(position)
             IN  IF ~g.ok THEN Aborted
                 ELSE IF ~pos.ok THEN Aborted
                 ELSE IF ActionParse(pl, pos.pos) \notin actions(g.game, pl)
                      THEN BadRequest("Invalid action for the given player")
                 ELSE LET json == serialize_result(
                                      result(g.game, ActionParse(pl, pos.pos)))
                      IN  [NoOut EXCEPT !.kind = "Ok", !.status = 200,
                                        !.board = json.board, !.winner = json.winner]

(* fn decide: the response built from the game and what bot.decide returned *)
DecideResponse(g, decision) ==
    IF decision.kind = "Panic" THEN [Aborted EXCEPT !.inner = "Panic"]
    ELSE IF decision.kind = "Err"
         THEN [NoOut EXCEPT !.kind = "Ok", !.status = 200, !.inner = "Err",
                            !.board = serialize_result(g).board,
                            !.winner = serialize_result(g).winner]
    ELSE [NoOut EXCEPT !.kind = "Ok", !.status = 200, !.inner = "Ok",
                       !.decision = <<decision.action.placement>>,
                       !.board = serialize_result(decision.result).board,
                       !.winner = serialize_result(decision.result).winner]

(* fn decide(board, intelligence), the action set enumerated in order ord   *)
HandleDecide(data, intelligence, bld, ord) ==
    LET b == BoardParse(data)
    IN  IF b.kind = "Panic" THEN Aborted
        ELSE IF b.kind = "Err" THEN BadRequest("Invalid board")
        ELSE IF ~GameParse(b.board, "Bot", bld).ok THEN Aborted
        ELSE DecideResponse(GameParse(b.board, "Bot", bld).game,
                            decide(BotNew(intelligence),
                                   GameParse(b.board, "Bot", bld).game, ord))

(* fn index                                                                 *)
HandleIndex == [NoOut EXCEPT !.kind = "Ok", !.status = 200, !.body = "Hello World!"]

(* fn initial_board                                                         *)
HandleInitialBoard ==
    [NoOut EXCEPT !.kind = "Ok", !.status = 200, !.board = BoardToString(BoardNew)]

(* fn evaluate(board): value is the numerator evaluation - min_best of the  *)
(* normalised number, whose denominator is the constant max_best - min_best *)
HandleEvaluate(data, bld) ==
    LET b == BoardParse(data)
    IN  IF b.kind = "Panic" THEN Aborted
        ELSE IF b.kind = "Err" THEN BadRequest("Invalid board")
        ELSE IF ~GameParse(b.board, "Bot", bld).ok THEN Aborted
        ELSE [NoOut EXCEPT !.kind = "Ok", !.status = 200,
                           !.value = evaluate(GameParse(b.board, "Bot", bld).game)
                                     - min_best_evaluation]

(* fn actions(board, player): the JSON array, as the set of its placements  *)
HandleActions(data, player, bld) ==
    LET b == BoardParse(data)
    IN  IF b.kind = "Panic" THEN Aborted
        ELSE IF b.kind = "Err" THEN BadRequest("Invalid board")
        ELSE IF player = <<>> THEN BadRequest("Invalid player")
        ELSE IF ~PlayerParse(player[1]).ok THEN BadRequest("Invalid player")
        ELSE IF ~GameParse(b.board, PlayerParse(player[1]).player, bld).ok THEN Aborted
        ELSE [NoOut EXCEPT !.kind = "Ok", !.status = 200,
                           !.acts = actions(GameParse(b.board, PlayerParse(player[1]).player,
                                                      bld).game,
                                            PlayerParse(player[1]).player)]

(* the allow-list built in main                                             *)
allowed_origins ==
    {"http://localhost:443", "https://localhost", "https://localhost:80",
     "http://localhost:8080", "http://localhost", "http://desdemona.seoulsky.org",
     "http://desdemona.seoulsky.org:443", "https://desdemona.seoulsky.org"}

\* the fairing without its allow-list test
on_response_Unconditional(header, response) ==
    [response EXCEPT !.headers =
        {<<"Access-Control-Allow-Origin", IF header = <<>> THEN "" ELSE header[1]>>,
         <<"Access-Control-Allow-Methods", "GET">>,
         <<"Access-Control-Allow-Headers", "*">>,
         <<"Access-Control-Allow-Credentials", "true">>}]

(* Cors::on_response : header is the Option of get_one("Origin")            *)
on_response(header, response) ==
    LET request_origin == IF header = <<>> THEN "" ELSE header[1]
    IN  IF request_origin \in allowed_origins
        THEN [response EXCEPT !.headers =
                 {<<"Access-Control-Allow-Origin", request_origin>>,
                  <<"Access-Control-Allow-Methods", "GET">>,
                  <<"Access-Control-Allow-Headers", "*">>,
                  <<"Access-Control-Allow-Credentials", "true">>}]
        ELSE response

-----------------------------------------------------------------------------
(* Inputs.  A board text is the tuple of its lines, a line the tuple of its *)
(* characters.                                                              *)

TextStart ==
  << <<"E","E","E","E","E","E","E","E">>,
     <<"E","E","E","E","E","E","E","E">>,
     <<"E","E","E","E","E","E","E","E">>,
     <<"E","E","E","D","L","E","E","E">>,
     <<"E","E","E","L","D","E","E","E">>,
     <<"E","E","E","E","E","E","E","E">>,
     <<"E","E","E","E","E","E","E","E">>,
     <<"E","E","E","E","E","E","E","E">> >>

TextRow ==
  << <<"E","D","D","D","D","D","D","L">>,
     <<"E","E","E","E","E","E","E","E">>,
     <<"E","E","E","E","E","E","E","E">>,
     <<"E","E","E","D","L","E","E","E">>,
     <<"E","E","E","L","D","E","E","E">>,
     <<"E","E","E","E","E","E","E","E">>,
     <<"E","E","E","E","E","E","E","E">>,
     <<"E","E","E","E","E","E","E","E">> >>

TextDiag ==
  << <<"E","E","E","E","E","E","E","E">>,
     <<"E","D","E","E","E","E","E","E">>,
     <<"E","E","D","E","E","E","E","E">>,
     <<"E","E","E","D","E","E","E","E">>,
     <<"E","E","E","E","D","E","E","E">>,
     <<"E","E","E","E","E","D","E","E">>,
     <<"E","E","E","E","E","E","D","E">>,
     <<"E","E","E","E","E","E","E","L">> >>

TextColumn ==
  << <<"E","E","E","E","E","E","E","E">>,
     <<"D","E","E","E","E","E","E","E">>,
     <<"D","E","E","E","E","E","E","E">>,
     <<"D","E","E","E","E","E","E","E">>,
     <<"D","E","E","E","E","E","E","E">>,
     <<"D","E","E","E","E","E","E","E">>,
     <<"D","E","E","E","E","E","E","E">>,
     <<"L","E","E","E","E","E","E","E">> >>

TextDraw ==
  << <<"D","D","D","D","D","D","D","D">>,
     <<"L","L","L","L","L","L","L","L">>,
     <<"D","D","D","D","D","D","D","D">>,
     <<"L","L","L","L","L","L","L","L">>,
     <<"D","D","D","D","D","D","D","D">>,
     <<"L","L","L","L","L","L","L","L">>,
     <<"D","D","D","D","D","D","D","D">>,
     <<"L","L","L","L","L","L","L","L">> >>

TextAllLight ==
  << <<"L","L","L","L","L","L","L","L">>,
     <<"L","L","L","L","L","L","L","L">>,
     <<"L","L","L","L","L","L","L","L">>,
     <<"L","L","L","L","L","L","L","L">>,
     <<"L","L","L","L","L","L","L","L">>,
     <<"L","L","L","L","L","L","L","L">>,
     <<"L","L","L","L","L","L","L","L">>,
     <<"L","L","L","L","L","L","L","L">> >>

TextAllDark ==
  << <<"D","D","D","D","D","D","D","D">>,
     <<"D","D","D","D","D","D","D","D">>,
     <<"D","D","D","D","D","D","D","D">>,
     <<"D","D","D","D","D","D","D","D">>,
     <<"D","D","D","D","D","D","D","D">>,
     <<"D","D","D","D","D","D","D","D">>,
     <<"D","D","D","D","D","D","D","D">>,
     <<"D","D","D","D","D","D","D","D">> >>

TextLastMove ==
  << <<"E","D","D","D","D","D","D","L">>,
     <<"D","D","D","D","D","D","D","D">>,
     <<"D","D","D","D","D","D","D","D">>,
     <<"D","D","D","D","D","D","D","D">>,
     <<"L","L","L","L","L","L","L","L">>,
     <<"L","L","L","L","L","L","L","L">>,
     <<"L","L","L","L","L","L","L","L">>,
     <<"L","L","L","L","L","L","D","D">> >>

TextNoBotMoves ==
  << <<"D","L","E","E","E","E","E","E">>,
     <<"E","E","E","E","E","E","E","E">>,
     <<"E","E","E","E","E","E","E","E">>,
     <<"E","E","E","E","E","E","E","E">>,
     <<"E","E","E","E","E","E","E","E">>,
     <<"E","E","E","E","E","E","E","D">>,
     <<"E","E","E","E","E","E","E","E">>,
     <<"E","E","E","E","E","E","E","D">> >>

TextCorners ==
  << <<"D","E","E","E","E","E","E","D">>,
     <<"E","E","E","E","E","E","E","E">>,
     <<"E","E","E","E","E","E","E","E">>,
     <<"E","E","E","L","D","E","E","E">>,
     <<"E","E","E","E","E","E","E","E">>,
     <<"E","E","L","D","E","E","E","E">>,
     <<"E","E","E","E","E","E","E","E">>,
     <<"D","E","E","E","E","E","E","D">> >>

TextEmpty ==
  << <<"E","E","E","E","E","E","E","E">>,
     <<"E","E","E","E","E","E","E","E">>,
     <<"E","E","E","E","E","E","E","E">>,
     <<"E","E","E","E","E","E","E","E">>,
     <<"E","E","E","E","E","E","E","E">>,
     <<"E","E","E","E","E","E","E","E">>,
     <<"E","E","E","E","E","E","E","E">>,
     <<"E","E","E","E","E","E","E","E">> >>


\* the standard start after Dark's move to (5,3)
TextOpening ==
  << <<"E","E","E","E","E","E","E","E">>,
     <<"E","E","E","E","E","E","E","E">>,
     <<"E","E","E","E","E","E","E","E">>,
     <<"E","E","E","D","L","E","E","E">>,
     <<"E","E","E","D","D","E","E","E">>,
     <<"E","E","E","D","E","E","E","E">>,
     <<"E","E","E","E","E","E","E","E">>,
     <<"E","E","E","E","E","E","E","E">> >>

\* well-formed 8x8 board texts given to Board::parse
BoardTexts ==
    {TextStart, TextOpening, TextRow, TextDiag, TextColumn, TextDraw, TextAllLight,
     TextAllDark, TextLastMove, TextNoBotMoves, TextCorners, TextEmpty}

\* A position text is the tuple of its comma-separated fields, a player text
\* the tuple of its characters.
CoordTexts == {"0", "2", "3", "5", "8"}

PositionTexts ==
    {<<r, c>> : r \in CoordTexts, c \in CoordTexts}
    \cup {<<"">>, <<"3">>, <<"x", "3">>, <<"3", "x", "5">>, <<"2", "3", "5">>}

PlayerTexts == {<<"B">>, <<"H">>, <<>>, <<"X">>, <<"B", "H">>}

\* board texts outside the format: a foreign character, a ninth line, a line
\* of nine characters, a foreign character in the ninth column
TextBadChar ==
  << <<"E","E","E","E","E","E","E","E">>,
     <<"E","E","E","E","E","E","E","E">>,
     <<"E","E","E","X","E","E","E","E">>,
     <<"E","E","E","D","L","E","E","E">>,
     <<"E","E","E","L","D","E","E","E">>,
     <<"E","E","E","E","E","E","E","E">>,
     <<"E","E","E","E","E","E","E","E">>,
     <<"E","E","E","E","E","E","E","E">> >>

TextNineLines == TextStart \o << <<"E","E","E","E","E","E","E","E">> >>

TextLongLine ==
  << <<"E","E","E","E","E","E","E","E","E">> >> \o SubSeq(TextStart, 2, 8)

TextBadCharLate ==
  << <<"E","E","E","E","E","E","E","E","X">> >> \o SubSeq(TextStart, 2, 8)

MalformedBoardTexts == {TextBadChar, TextNineLines, TextLongLine, TextBadCharLate}

\* well-formed texts shorter than the board: fewer lines, shorter lines
TextShort == << <<"L","L","D">>, <<"D">>, <<>>, <<"E","E","E","E","L">> >>

TextNoLines == <<>>

ShortBoardTexts == {TextShort, TextNoLines}

\* the board parameter of a request
RequestBoardTexts == BoardTexts \cup MalformedBoardTexts \cup ShortBoardTexts

\* the Origin header of a request: absent, listed, foreign, a listed host
\* with another scheme and port, a listed origin in another case, empty
OriginHeaders ==
    {<<>>, <<"https://desdemona.seoulsky.org">>, <<"https://evil.example">>,
     <<"https://desdemona.seoulsky.org:443">>, <<"HTTP://LOCALHOST">>, <<"">>}

Mv(player, row, col) == ActionParse(player, PositionNew(row, col))

\* a recorded game of legal moves from the standard start (turns need not
\* alternate: result takes the acting player from the action)
RecordedGame ==
    << Mv("Bot", 2, 3), Mv("Human", 2, 2), Mv("Human", 1, 3),
       Mv("Bot", 0, 3), Mv("Bot", 3, 1), Mv("Human", 1, 1),
       Mv("Bot", 2, 1), Mv("Bot", 3, 2), Mv("Human", 4, 1),
       Mv("Bot", 0, 0), Mv("Human", 0, 1), Mv("Bot", 2, 0),
       Mv("Bot", 5, 0), Mv("Human", 5, 1), Mv("Bot", 4, 0),
       Mv("Bot", 5, 2), Mv("Human", 6, 1), Mv("Bot", 7, 0),
       Mv("Human", 1, 4), Mv("Human", 1, 0) >>

\* free moves explored from every created game
MaxMoves == 2

\* depth limits (the intelligence of Bot::new) range over 0 .. MaxDepth
MaxDepth == 1

\* enumeration orders of the action set, see OrderKey
Orders == 1 .. 4

\* calls made in a row on one Board
MaxEdits == 2

\* decide calls made on one Bot
MaxDecides == 2

\* the cells place and flip are called on: corners, the four centre cells,
\* an empty inner cell
EditPositions ==
    {PositionNew(0, 0), PositionNew(7, 7), PositionNew(3, 3), PositionNew(3, 4),
     PositionNew(4, 4), PositionNew(2, 5)}

-----------------------------------------------------------------------------
(* The state machine                                                        *)

NoPosition == PositionNew(0, 0)

\* one call at a time: the caller reads what a call returned before the next
Idle == out = NoOut

Op(op, player, placement) == [op |-> op, player |-> player, placement |-> placement]

(* the Game values a caller constructs: Game::new(), or                     *)
(* Game::parse(Board::parse(text).unwrap(), player) where it returns        *)
Created(bld) ==
    {[game |-> GameNew, op |-> Op("new", "Bot", NoPosition)]}
    \cup {[game |-> GameParse(BoardParse(dp[1]).board, dp[2], bld).game,
           op |-> Op("parse", dp[2], NoPosition)] :
          dp \in {dp \in BoardTexts \X Players :
                  /\ BoardParse(dp[1]).kind = "Ok"
                  /\ GameParse(BoardParse(dp[1]).board, dp[2], bld).ok}}

Init ==
    /\ build \in {"debug", "release"}
    /\ \E c \in Created(build) :
          /\ game = c.game
          /\ prev = c.game
          /\ last = c.op
          /\ origin = c.op.op
          /\ rec = IF c.op.op = "new" THEN 0 ELSE -1
    /\ out = NoOut
    /\ moves = 0
    /\ bot = BotNew(0)
    /\ req = NoReq
    /\ grid = BoardNew
    /\ hist = <<>>
    /\ calls = 0

(* game.result(&action) for an action drawn from game.actions(player)       *)
DoResult(action) ==
    /\ Idle
    /\ moves < MaxMoves
    /\ action \in actions(game, action.player)
    /\ game' = result(game, action)
    /\ prev' = game
    /\ last' = Op("result", action.player, action.placement)
    /\ moves' = moves + 1
    /\ rec' = -1
    /\ UNCHANGED <<calls, grid, hist, build, out, origin, bot, req>>

(* the next move of the recorded game                                       *)
PlayRecorded ==
    /\ Idle
    /\ rec >= 0 /\ rec < Len(RecordedGame)
    /\ LET action == RecordedGame[rec + 1]
       IN  /\ action \in actions(game, action.player)
           /\ game' = result(game, action)
           /\ prev' = game
           /\ last' = Op("result", action.player, action.placement)
    /\ moves' = moves + 1
    /\ rec' = rec + 1
    /\ UNCHANGED <<calls, grid, hist, build, out, origin, bot, req>>

(* game.actions(player), collected                                          *)
CallActions(player) ==
    /\ Idle
    /\ out' = [NoOut EXCEPT !.kind = "Ok", !.acts = actions(game, player)]
    /\ last' = Op("actions", player, NoPosition)
    /\ UNCHANGED <<calls, grid, hist, build, game, prev, moves, rec, origin, bot, req>>

(* game.evaluate()                                                          *)
CallEvaluate ==
    /\ Idle
    /\ out' = [NoOut EXCEPT !.kind = "Ok", !.value = evaluate(game)]
    /\ last' = Op("evaluate", game.current_player, NoPosition)
    /\ UNCHANGED <<calls, grid, hist, build, game, prev, moves, rec, origin, bot, req>>

(* game.utility(): its assertion aborts the call unless the game is over    *)
CallUtility ==
    /\ Idle
    /\ out' = IF is_over(game)
              THEN [NoOut EXCEPT !.kind = "Ok", !.value = utility(game)]
              ELSE [NoOut EXCEPT !.kind = "Panic"]
    /\ last' = Op("utility", game.current_player, NoPosition)
    /\ UNCHANGED <<calls, grid, hist, build, game, prev, moves, rec, origin, bot, req>>

(* max_best_evaluation()                                                    *)
CallMaxBestEvaluation ==
    /\ Idle
    /\ out' = [NoOut EXCEPT !.kind = "Ok", !.value = max_best_evaluation]
    /\ last' = Op("max_best_evaluation", game.current_player, NoPosition)
    /\ UNCHANGED <<calls, grid, hist, build, game, prev, moves, rec, origin, bot, req>>

(* min_best_evaluation()                                                    *)
CallMinBestEvaluation ==
    /\ Idle
    /\ out' = [NoOut EXCEPT !.kind = "Ok", !.value = min_best_evaluation]
    /\ last' = Op("min_best_evaluation", game.current_player, NoPosition)
    /\ UNCHANGED <<calls, grid, hist, build, game, prev, moves, rec, origin, bot, req>>

Next ==
    \/ \E player \in Players : \E action \in actions(game, player) : DoResult(action)
    \/ PlayRecorded
    \/ \E player \in Players : CallActions(player)
    \/ CallEvaluate
    \/ CallUtility
    \/ CallMaxBestEvaluation
    \/ CallMinBestEvaluation

Spec == Init /\ [][Next]_vars

(* ---- the Bot: Bot::new(intelligence), then bot.decide(&game) ----------- *)

InitBot ==
    /\ build \in {"debug", "release"}
    /\ \E c \in Created(build) :
          /\ game = c.game
          /\ prev = c.game
          /\ last = c.op
          /\ origin = c.op.op
    /\ rec = -1
    /\ out = NoOut
    /\ moves = 0
    /\ bot \in {BotNew(n) : n \in 0 .. MaxDepth}
    /\ req = NoReq
    /\ grid = BoardNew
    /\ hist = <<>>
    /\ calls = 0

(* bot.decide(&game), the action set enumerated in order ord                *)
Decide(ord) ==
    /\ Idle
    /\ calls < MaxDecides
    /\ calls' = calls + 1
    /\ \E d \in {decide(bot, game, ord)} :
          /\ out' = [NoOut EXCEPT !.kind = d.kind,
                                  !.decision = IF d.kind = "Ok" THEN <<d.action>> ELSE <<>>,
                                  !.result = IF d.kind = "Ok" THEN <<d.result>> ELSE <<>>]
          /\ bot' = d.bot
          /\ last' = [op |-> "decide", player |-> "Bot", placement |-> NoPosition,
                      ord |-> ord, trace |-> d.trace]
    /\ UNCHANGED <<grid, hist, build, game, prev, moves, rec, origin, req>>

(* the caller takes the decision and hands the same Bot its next game       *)
TakeDecision(next) ==
    /\ last.op = "decide"
    /\ out.kind = "Ok"
    /\ calls < MaxDecides
    /\ game' = next
    /\ prev' = game
    /\ out' = NoOut
    /\ last' = Op("take", "Bot", NoPosition)
    /\ UNCHANGED <<calls, grid, hist, build, moves, rec, origin, bot, req>>

\* the games the caller may pass next: the same game, or the returned result
\* after Human's reply, Human taking the first of its actions in the
\* enumeration order of the call
NextGames ==
    IF out.result = <<>> THEN {}
    ELSE {game} \cup
         {result(out.result[1], reply) :
             reply \in {Enumerate(actions(out.result[1], "Human"), last.ord)[i] :
                           i \in {i \in {1} : actions(out.result[1], "Human") # {}}}}

NextBot == \E ord \in Orders : Decide(ord)

SpecBot == InitBot /\ [][NextBot]_vars

(* ---- one Bot deciding several times, its memo kept between the calls --- *)

\* the enumeration orders used when a Bot decides several times: row-major
\* and its reverse
MemoOrders == {1, 2}

InitMemo ==
    /\ build \in {"debug", "release"}
    /\ \E c \in {[game |-> GameNew, op |-> Op("new", "Bot", NoPosition)],
                  [game |-> GameParse(BoardParse(TextOpening).board, "Bot", build).game,
                   op |-> Op("parse", "Bot", NoPosition)]} :
          /\ game = c.game
          /\ prev = c.game
          /\ last = c.op
          /\ origin = c.op.op
    /\ rec = -1
    /\ out = NoOut
    /\ moves = 0
    /\ bot \in {BotNew(n) : n \in 0 .. MaxDepth}
    /\ req = NoReq
    /\ grid = BoardNew
    /\ hist = <<>>
    /\ calls = 0

NextMemo ==
    \/ \E ord \in MemoOrders : Decide(ord)
    \/ \E next \in NextGames : TakeDecision(next)

SpecMemo == InitMemo /\ [][NextMemo]_vars

(* ---- the HTTP service: every request is answered from its parameters --- *)

InitApi ==
    /\ build \in {"debug", "release"}
    /\ game = GameNew
    /\ prev = GameNew
    /\ last = Op("new", "Bot", NoPosition)
    /\ origin = "new"
    /\ rec = -1
    /\ out = NoOut
    /\ moves = 0
    /\ bot = BotNew(0)
    /\ req = NoReq
    /\ grid = BoardNew
    /\ hist = <<>>
    /\ calls = 0

(* GET /api/ ; every response passes through Cors::on_response             *)
ApiIndex ==
    /\ Idle
    /\ \E header \in OriginHeaders :
          /\ req' = [NoReq EXCEPT !.route = "/", !.origin = header]
          /\ out' = on_response(header, HandleIndex)
    /\ last' = Op("api_index", "Bot", NoPosition)
    /\ UNCHANGED <<calls, grid, hist, build, game, prev, moves, rec, origin, bot>>

(* GET /api/initial-board                                                   *)
ApiInitialBoard ==
    /\ Idle
    /\ \E header \in OriginHeaders :
          /\ req' = [NoReq EXCEPT !.route = "/initial-board", !.origin = header]
          /\ out' = on_response(header, HandleInitialBoard)
    /\ last' = Op("api_initial_board", "Bot", NoPosition)
    /\ UNCHANGED <<calls, grid, hist, build, game, prev, moves, rec, origin, bot>>

(* GET /api/evaluate?board=..                                               *)
ApiEvaluate(data) ==
    /\ Idle
    /\ \E response \in {HandleEvaluate(data, build)}, header \in OriginHeaders :
          /\ req' = [NoReq EXCEPT !.route = "/evaluate", !.board = data,
                                  !.origin = header]
          /\ out' = on_response(header, response)
    /\ last' = Op("api_evaluate", "Bot", NoPosition)
    /\ UNCHANGED <<calls, grid, hist, build, game, prev, moves, rec, origin, bot>>

(* GET /api/result?board=..&position=..&player=..                           *)
ApiResult(data, position, player) ==
    /\ Idle
    /\ \E response \in {HandleResult(data, position, player, build)},
          header \in OriginHeaders :
          /\ req' = [NoReq EXCEPT !.route = "/result", !.board = data,
                                  !.position = position, !.player = player,
                                  !.origin = header]
          /\ out' = on_response(header, response)
    /\ last' = Op("api_result", "Bot", NoPosition)
    /\ UNCHANGED <<calls, grid, hist, build, game, prev, moves, rec, origin, bot>>

(* GET /api/actions?board=..&player=..                                      *)
ApiActions(data, player) ==
    /\ Idle
    /\ \E response \in {HandleActions(data, player, build)}, header \in OriginHeaders :
          /\ req' = [NoReq EXCEPT !.route = "/actions", !.board = data,
                                  !.player = player, !.origin = header]
          /\ out' = on_response(header, response)
    /\ last' = Op("api_actions", "Bot", NoPosition)
    /\ UNCHANGED <<calls, grid, hist, build, game, prev, moves, rec, origin, bot>>

(* GET /api/decide?board=..&intelligence=..                                 *)
ApiDecide(data, intelligence, ord) ==
    /\ Idle
    /\ \E response \in {HandleDecide(data, intelligence, build, ord)},
          header \in OriginHeaders :
          /\ req' = [NoReq EXCEPT !.route = "/decide", !.board = data,
                                  !.intelligence = intelligence, !.origin = header]
          /\ out' = on_response(header, response)
    /\ last' = Op("api_decide", "Bot", NoPosition)
    /\ UNCHANGED <<calls, grid, hist, build, game, prev, moves, rec, origin, bot>>

NextApi ==
    \/ ApiIndex
    \/ ApiInitialBoard
    \/ \E data \in RequestBoardTexts : ApiEvaluate(data)
    \/ \E data \in RequestBoardTexts, position \in PositionTexts, player \in PlayerTexts :
          ApiResult(data, position, player)
    \/ \E data \in RequestBoardTexts, player \in PlayerTexts : ApiActions(data, player)
    \/ \E data \in RequestBoardTexts, intelligence \in 0 .. MaxDepth, ord \in Orders :
          ApiDecide(data, intelligence, ord)

SpecApi == InitApi /\ [][NextApi]_vars

(* ---- a Board on its own: Board::new(), then place, flip, parse, display -- *)

InitBoard ==
    /\ build \in {"debug", "release"}
    /\ game = GameNew
    /\ prev = GameNew
    /\ last = Op("new", "Bot", NoPosition)
    /\ origin = "new"
    /\ rec = -1
    /\ out = NoOut
    /\ moves = 0
    /\ bot = BotNew(0)
    /\ req = NoReq
    /\ grid = BoardNew
    /\ hist = <<>>
    /\ calls = 0

Call(op, before, pos, d, text, kind) ==
    [op |-> op, grid |-> before, pos |-> pos, disk |-> d, text |-> text, kind |-> kind]

(* board.place(disk, &pos)                                                  *)
BoardPlace(d, pos) ==
    /\ Len(hist) < MaxEdits
    /\ grid' = place(grid, d, pos).board
    /\ hist' = Append(hist, Call("place", grid, pos, d, <<>>,
                                 IF place(grid, d, pos).ok THEN "Ok" ELSE "Err"))
    /\ UNCHANGED <<calls, build, game, prev, last, out, moves, rec, origin, bot, req>>

(* board.flip(&pos)                                                         *)
BoardFlip(pos) ==
    /\ Len(hist) < MaxEdits
    /\ grid' = flip(grid, pos).board
    /\ hist' = Append(hist, Call("flip", grid, pos, "None", <<>>,
                                 IF flip(grid, pos).ok THEN "Ok" ELSE "Err"))
    /\ UNCHANGED <<calls, build, game, prev, last, out, moves, rec, origin, bot, req>>

(* board = Board::parse(data)?, the board kept when the parse fails         *)
BoardParseText(data) ==
    /\ Len(hist) < MaxEdits
    /\ \E parsed \in {BoardParse(data)} :
          /\ grid' = IF parsed.kind = "Ok" THEN parsed.board ELSE grid
          /\ hist' = Append(hist, Call("parse", grid, NoPosition, "None", data,
                                       parsed.kind))
    /\ UNCHANGED <<calls, build, game, prev, last, out, moves, rec, origin, bot, req>>

(* board = Board::parse(board.to_string())?                                 *)
BoardReparse ==
    /\ Len(hist) < MaxEdits
    /\ \E text \in {BoardToString(grid)} : \E parsed \in {BoardParse(text)} :
          /\ grid' = IF parsed.kind = "Ok" THEN parsed.board ELSE grid
          /\ hist' = Append(hist, Call("reparse", grid, NoPosition, "None", text,
                                       parsed.kind))
    /\ UNCHANGED <<calls, build, game, prev, last, out, moves, rec, origin, bot, req>>

NextBoard ==
    \/ \E d \in {"Dark", "Light"}, pos \in EditPositions : BoardPlace(d, pos)
    \/ \E pos \in EditPositions : BoardFlip(pos)
    \/ \E data \in RequestBoardTexts : BoardParseText(data)
    \/ BoardReparse

SpecBoard == InitBoard /\ [][NextBoard]_vars

(* ---- positions: board.neighbour(&pos, dir) and Position::parse(s) ------- *)

(* board.neighbour(&pos, dir) for an in-bounds pos                          *)
CallNeighbour(pos, dir) ==
    /\ Idle
    /\ out' = [NoOut EXCEPT !.kind = "Ok", !.position = neighbour(pos, dir)]
    /\ last' = [op |-> "neighbour", player |-> "Bot", placement |-> pos, dir |-> dir]
    /\ UNCHANGED <<calls, grid, hist, build, game, prev, moves, rec, origin, bot, req>>

(* Position::parse(s), s given by its comma-separated fields                *)
CallPositionParse(fields) ==
    /\ Idle
    /\ out' = IF PositionParse(fields).ok
              THEN [NoOut EXCEPT !.kind = "Ok", !.position = <<PositionParse(fields).pos>>]
              ELSE [NoOut EXCEPT !.kind = "Err"]
    /\ req' = [NoReq EXCEPT !.position = fields]
    /\ last' = Op("position_parse", "Bot", NoPosition)
    /\ UNCHANGED <<calls, grid, hist, build, game, prev, moves, rec, origin, bot>>

NextPosition ==
    \/ \E pos \in PositionAll, i \in 1 .. Len(DirectionAll) :
          CallNeighbour(pos, DirectionAll[i])
    \/ \E fields \in PositionTexts : CallPositionParse(fields)

SpecPosition == InitBoard /\ [][NextPosition]_vars

(* ---- games played to their end, and a Bot with a very large depth limit -- *)

\* a position with 5 empty cells in which both players have a move
TextEndgame ==
  << <<"L","L","L","L","D","L","L","L">>,
     <<"L","L","L","L","D","D","L","L">>,
     <<"D","D","D","D","L","L","D","L">>,
     <<"D","D","D","L","L","D","D","L">>,
     <<"D","E","D","D","D","D","L","L">>,
     <<"D","D","D","D","L","L","L","L">>,
     <<"E","E","D","D","D","D","D","E">>,
     <<"E","L","L","L","L","L","L","L">> >>

EndgameTexts == {TextEndgame, TextLastMove}

\* a depth limit far beyond the 60 moves a game can last
BigDepth == 1000000

\* Game::parse(board, Player::Bot) as the decide route calls it; grid keeps
\* the board the game started from
InitEndgame ==
    /\ build \in {"debug", "release"}
    /\ \E data \in EndgameTexts :
          /\ game = GameParse(BoardParse(data).board, "Bot", build).game
          /\ prev = game
          /\ grid = game.board
          /\ last = Op("parse", "Bot", NoPosition)
    /\ origin = "parse"
    /\ rec = -1
    /\ out = NoOut
    /\ moves = 0
    /\ bot = BotNew(BigDepth)
    /\ req = NoReq
    /\ hist = <<>>
    /\ calls = 0

(* game = game.result(&action) for an action drawn from game.actions(player), *)
(* as often as there is one                                                  *)
ApplyResult(action) ==
    /\ Idle
    /\ action \in actions(game, action.player)
    /\ game' = result(game, action)
    /\ prev' = game
    /\ last' = Op("result", action.player, action.placement)
    /\ moves' = moves + 1
    /\ UNCHANGED <<calls, grid, hist, build, out, rec, origin, bot, req>>

(* the caller continues with the Game that decide returned                   *)
ApplyDecision ==
    /\ last.op = "decide"
    /\ out.kind = "Ok"
    /\ game' = out.result[1]
    /\ prev' = game
    /\ last' = Op("result", out.decision[1].player, out.decision[1].placement)
    /\ moves' = moves + 1
    /\ out' = NoOut
    /\ UNCHANGED <<calls, grid, hist, build, rec, origin, bot, req>>

NextEndgame ==
    \/ \E player \in Players : \E action \in actions(game, player) : ApplyResult(action)
    \/ \E ord \in MemoOrders : Decide(ord)
    \/ ApplyDecision

SpecEndgame == InitEndgame /\ [][NextEndgame]_vars

-----------------------------------------------------------------------------
(* Properties.  The geometry below is stated on plain integer coordinates,  *)
(* independently of neighbour and of the walks of actions and result.       *)

Deltas == {d \in {-1, 0, 1} \X {-1, 0, 1} : d # <<0, 0>>}

OnBoard(r, c) == r \in Index /\ c \in Index

\* the cell m steps from pos in direction d holds colour
RayHolds(board, pos, d, m, colour) ==
    /\ OnBoard(pos.row + m * d[1], pos.col + m * d[2])
    /\ board[pos.row + m * d[1]][pos.col + m * d[2]] = colour

\* length of the maximal contiguous run of colour starting next to pos
RunLength(board, pos, d, colour) ==
    CHOOSE k \in 0 .. BOARD_SIZE :
        /\ \A m \in 1 .. k : RayHolds(board, pos, d, m, colour)
        /\ ~RayHolds(board, pos, d, k + 1, colour)

\* the run from pos in direction d is immediately followed by a disk of own
RunClosed(board, pos, d, own, opp) ==
    RayHolds(board, pos, d, RunLength(board, pos, d, opp) + 1, own)

Count(board, colour) ==
    Cardinality({rc \in Index \X Index : board[rc[1]][rc[2]] = colour})

\* C1: after result(action) the placement holds the player's disk and, in each
\* of the 8 directions, the maximal run of opponent disks next to it is flipped
\* exactly when an in-bounds disk of the player follows it; a run ended by the
\* edge or by an empty cell keeps its colour.
C1_MoveApplication ==
    last.op = "result" =>
        LET pos == last.placement
            own == PlayerDisk(last.player)
            opp == PlayerDisk(opponent(last.player))
        IN  /\ game.board[pos.row][pos.col] = own
            /\ \A d \in Deltas :
                 \A m \in 1 .. RunLength(prev.board, pos, d, opp) :
                    RayHolds(game.board, pos, d, m,
                             IF RunClosed(prev.board, pos, d, own, opp)
                             THEN own ELSE opp)

\* a move that flips a run of two or more disks and leaves another run alone
C1_Witness ==
    /\ last.op = "result"
    /\ LET pos == last.placement
           own == PlayerDisk(last.player)
           opp == PlayerDisk(opponent(last.player))
       IN  /\ \E d \in Deltas :
                /\ RunLength(prev.board, pos, d, opp) >= 2
                /\ RunClosed(prev.board, pos, d, own, opp)
                /\ RayHolds(game.board, pos, d, 2, own)
           /\ \E d \in Deltas :
                /\ RunLength(prev.board, pos, d, opp) >= 1
                /\ ~RunClosed(prev.board, pos, d, own, opp)

\* the empty cells reached from a disk of player across one or more opponent disks
LegalCells(board, player) ==
    {c \in PositionAll :
        /\ board[c.row][c.col] = "None"
        /\ \E d \in Deltas : \E k \in 1 .. BOARD_SIZE :
              /\ RayHolds(board, c, d, 1, PlayerDisk(opponent(player)))
              /\ \A m \in 1 .. k :
                    RayHolds(board, c, d, m, PlayerDisk(opponent(player)))
              /\ RayHolds(board, c, d, k + 1, PlayerDisk(player))}

\* C2: actions(p) is exactly the set of empty cells that end a contiguous run of
\* one or more opponent disks starting next to a disk of p; from Game.new() the
\* Bot's actions are (2,3), (3,2), (4,5) and (5,4).
C2_LegalMoves ==
    last.op = "actions" =>
        /\ out.acts = {ActionParse(last.player, c) :
                          c \in LegalCells(game.board, last.player)}
        /\ (game = GameNew /\ last.player = "Bot") =>
              out.acts = {Mv("Bot", 2, 3), Mv("Bot", 3, 2),
                          Mv("Bot", 4, 5), Mv("Bot", 5, 4)}

\* actions was called on a board where a legal cell lies behind a run of two
\* or more opponent disks, and on which an empty cell next to a disk is not legal
C2_Witness ==
    /\ last.op = "actions"
    /\ \E a \in out.acts : \E d \in Deltas :
          RunLength(game.board, a.placement, d,
                    PlayerDisk(opponent(last.player))) >= 2
    /\ \E c \in PositionAll :
          /\ game.board[c.row][c.col] = "None"
          /\ \E d \in Deltas : RayHolds(game.board, c, d, 1, PlayerDisk(last.player))
          /\ ActionParse(last.player, c) \notin out.acts

\* C3: in every Game made by parse or by result of legal actions, the stored
\* winner is Bot / Human / absent by the disk counts when neither player has a
\* legal action, and absent while some player has one.
C3_WinnerConsistency ==
    last.op \in {"parse", "result"} /\ Idle =>
    LET over == LegalCells(game.board, "Bot") = {}
                /\ LegalCells(game.board, "Human") = {}
        light == Count(game.board, "Light")
        dark == Count(game.board, "Dark")
    IN  game.winner = IF ~over THEN "None"
                      ELSE IF light > dark THEN "Bot"
                      ELSE IF dark > light THEN "Human"
                      ELSE "None"

\* a move ended the game and a winner was stored
C3_Witness ==
    /\ last.op = "result"
    /\ is_over(game)
    /\ game.winner = "Bot"
    /\ Count(game.board, "Light") > Count(game.board, "Dark")

C8_EvaluationBounds ==
    (origin = "new" /\ last.op = "evaluate") =>
        /\ min_best_evaluation <= out.value
        /\ out.value <= max_best_evaluation

\* plain depth-limited minimax without any cut-off: the value of g with player
\* to move at ply depth, the loops of min_value / max_value run to their end
RECURSIVE Minimax(_, _, _, _)
Minimax(g, player, depth, limit) ==
    IF is_over(g) THEN utility(g)
    ELSE IF depth > limit THEN evaluate(g)
    ELSE LET children == {Minimax(result(g, a), opponent(player), depth + 1, limit) :
                             a \in actions(g, player)}
         IN  IF player = "Human"
             THEN CHOOSE v \in children \cup {max_best_evaluation} :
                      \A w \in children \cup {max_best_evaluation} : v <= w
             ELSE CHOOSE v \in children \cup {min_best_evaluation} :
                      \A w \in children \cup {min_best_evaluation} : v >= w

\* C5: the action decide returns has, among all legal Bot actions, the greatest
\* plain depth-N minimax value of the resulting position.
C5_SearchOptimal ==
    (last.op = "decide" /\ out.kind = "Ok") =>
        \A a \in actions(game, "Bot") :
            Minimax(out.result[1], "Human", 1, bot.depth_limit)
                >= Minimax(result(game, a), "Human", 1, bot.depth_limit)

\* C7: whenever Bot has a legal action, decide returns Ok((a, g')) with a one of
\* game.actions(Bot) and g' = game.result(a); its assertion never fails.
C7_DecisionFound ==
    (last.op = "decide" /\ actions(game, "Bot") # {}) =>
        /\ out.kind = "Ok"
        /\ out.decision[1] \in actions(game, "Bot")
        /\ out.result[1] = result(game, out.decision[1])

\* the player a one-character player text names
PlayerOfText(player) == IF player = <<BOT_CHAR>> THEN "Bot" ELSE "Human"

\* C6: for a board on which Bot has no legal action, decide fails with
\* InvalidArgument and /api/decide answers 200 with decision null and the input
\* board unmodified, the winner field present exactly when the game is over.
C6_NoMovesHandled ==
    (/\ last.op = "api_decide"
     /\ BoardParse(req.board).kind = "Ok"
     /\ LegalCells(BoardParse(req.board).board, "Bot") = {}) =>
        /\ out.inner = "Err"
        /\ out.status = 200
        /\ out.decision = <<>>
        /\ out.board = req.board
        /\ (out.winner # "absent")
              <=> (LegalCells(BoardParse(req.board).board, "Human") = {})

\* C9: for a board that parses, a player B or H and a position of two unsigned
\* integers that is not a legal action of that player on that board, /api/result
\* answers 400 "Invalid action for the given player" and returns no board.
C9_IllegalMoveRejected ==
    (/\ last.op = "api_result"
     /\ BoardParse(req.board).kind = "Ok"
     /\ req.player \in {<<BOT_CHAR>>, <<HUMAN_CHAR>>}
     /\ Len(req.position) = 2
     /\ ParseUsize(req.position[1]).ok /\ ParseUsize(req.position[2]).ok
     /\ PositionNew(ParseUsize(req.position[1]).val, ParseUsize(req.position[2]).val)
            \notin LegalCells(BoardParse(req.board).board, PlayerOfText(req.player))) =>
        /\ out.kind = "Ok"
        /\ out.status = 400
        /\ out.body = "Invalid action for the given player"
        /\ out.board = <<>>

\* C10: a request to /api/result whose position text does not parse as a
\* position is answered with status 400; the handler does not abort.
C10_ParseFailureIs400 ==
    (last.op = "api_result" /\ ~PositionParse(req.position).ok) =>
        /\ out.kind = "Ok"
        /\ out.status = 400

-----------------------------------------------------------------------------
(* Properties of the HTTP service                                           *)

BoardRoutes == {"api_evaluate", "api_result", "api_actions", "api_decide"}

ApiRoutes == BoardRoutes \cup {"api_index", "api_initial_board"}

\* the text is in the board format as far as the three cases of the claim go:
\* at most 8 lines, each of at most 8 characters, every character E, D or L
InBoardFormat(data) ==
    /\ Len(data) <= 8
    /\ \A i \in 1 .. Len(data) :
          /\ Len(data[i]) <= 8
          /\ \A j \in 1 .. Len(data[i]) : data[i][j] \in {"E", "D", "L"}

\* C11: for a board text with a character outside {E,D,L}, more than 8 lines
\* or a line longer than 8 characters, Board.parse reports a ParseError and each
\* of /evaluate, /result, /actions and /decide answers 400 "Invalid board".
C11_InvalidBoardIs400 ==
    (last.op \in BoardRoutes /\ ~InBoardFormat(req.board)) =>
        /\ BoardParse(req.board).kind = "Err"
        /\ out.status = 400
        /\ out.body = "Invalid board"

\* C12: on /api/result and /api/actions with a board that parses, a player
\* text other than exactly "B" or "H" (empty, longer, another character) is
\* answered with 400 "Invalid player".
C12_PlayerParameter ==
    (/\ last.op \in {"api_result", "api_actions"}
     /\ BoardParse(req.board).kind = "Ok"
     /\ req.player \notin {<<"B">>, <<"H">>}) =>
        /\ out.status = 400
        /\ out.body = "Invalid player"

\* the allow-list as the specification gives it
ListedOrigins ==
    {"http://localhost:443", "https://localhost", "https://localhost:80",
     "http://localhost:8080", "http://localhost", "http://desdemona.seoulsky.org",
     "http://desdemona.seoulsky.org:443", "https://desdemona.seoulsky.org"}

\* C13: every response of every route, success or failure, carries the four
\* Access-Control-* headers exactly when the request has an Origin header equal
\* to an entry of the allow-list, Access-Control-Allow-Origin echoing it; with no
\* Origin header or an unlisted origin the response has none of them.
C13_CorsGating ==
    (last.op \in ApiRoutes) =>
        IF req.origin # <<>> /\ req.origin[1] \in ListedOrigins
        THEN out.headers =
                {<<"Access-Control-Allow-Origin", req.origin[1]>>,
                 <<"Access-Control-Allow-Methods", "GET">>,
                 <<"Access-Control-Allow-Headers", "*">>,
                 <<"Access-Control-Allow-Credentials", "true">>}
        ELSE out.headers = {}

\* a failure response to a listed origin carries the headers
C13_Witness ==
    /\ last.op = "api_result"
    /\ out.status = 400
    /\ req.origin = <<"https://desdemona.seoulsky.org">>
    /\ <<"Access-Control-Allow-Origin", "https://desdemona.seoulsky.org">> \in out.headers

-----------------------------------------------------------------------------
(* Properties of Board and Position                                         *)

\* the last call made on the Board
LastCall == hist[Len(hist)]

\* the two grids agree on every cell but pos
SameExceptAt(b1, b2, pos) ==
    \A r \in Index, c \in Index : (r # pos.row \/ c # pos.col) => b1[r][c] = b2[r][c]

OtherColour(colour) == IF colour = "Dark" THEN "Light" ELSE "Dark"

\* C14: place on an occupied cell and flip on an empty cell fail with
\* InvalidArgument and leave the board unchanged; place on an empty cell sets
\* only that cell; flip on an occupied cell toggles only that cell's colour; two
\* successive flips of one cell restore the original board.
C14_PlaceFlipContracts ==
    (hist # <<>>) =>
        /\ (LastCall.op = "place" /\ LastCall.grid[LastCall.pos.row][LastCall.pos.col] # "None") =>
               (LastCall.kind = "Err" /\ grid = LastCall.grid)
        /\ (LastCall.op = "place" /\ LastCall.grid[LastCall.pos.row][LastCall.pos.col] = "None") =>
               /\ LastCall.kind = "Ok"
               /\ grid[LastCall.pos.row][LastCall.pos.col] = LastCall.disk
               /\ SameExceptAt(grid, LastCall.grid, LastCall.pos)
        /\ (LastCall.op = "flip" /\ LastCall.grid[LastCall.pos.row][LastCall.pos.col] = "None") =>
               (LastCall.kind = "Err" /\ grid = LastCall.grid)
        /\ (LastCall.op = "flip" /\ LastCall.grid[LastCall.pos.row][LastCall.pos.col] # "None") =>
               /\ LastCall.kind = "Ok"
               /\ grid[LastCall.pos.row][LastCall.pos.col]
                     = OtherColour(LastCall.grid[LastCall.pos.row][LastCall.pos.col])
               /\ SameExceptAt(grid, LastCall.grid, LastCall.pos)
        /\ (/\ Len(hist) >= 2
            /\ LastCall.op = "flip"
            /\ hist[Len(hist) - 1].op = "flip"
            /\ hist[Len(hist) - 1].pos = LastCall.pos) =>
               grid = hist[Len(hist) - 1].grid

\* an occupied cell flipped twice in a row
C14_Witness ==
    /\ Len(hist) >= 2
    /\ LastCall.op = "flip" /\ LastCall.kind = "Ok"
    /\ hist[Len(hist) - 1].op = "flip" /\ hist[Len(hist) - 1].kind = "Ok"
    /\ hist[Len(hist) - 1].pos = LastCall.pos
    /\ grid # LastCall.grid

\* the standard start, cell by cell
StandardCell(r, c) ==
    IF <<r, c>> \in {<<3, 3>>, <<4, 4>>} THEN "Dark"
    ELSE IF <<r, c>> \in {<<3, 4>>, <<4, 3>>} THEN "Light"
    ELSE "None"

\* C15: Game.new() has Dark at (3,3) and (4,4), Light at (3,4) and (4,3), the
\* other 60 cells empty, Bot to move, phase Early and no winner.
C15_StandardStart ==
    (origin = "new" /\ moves = 0) =>
        /\ \A r \in Index, c \in Index : game.board[r][c] = StandardCell(r, c)
        /\ Cardinality({rc \in Index \X Index : game.board[rc[1]][rc[2]] = "None"}) = 60
        /\ game.current_player = "Bot"
        /\ game.phase = "Early"
        /\ game.winner = "None"

\* the new game, asked for Bot's actions, has its four opening moves
C15_Witness ==
    /\ origin = "new" /\ moves = 0
    /\ last.op = "actions" /\ last.player = "Bot"
    /\ out.acts = {Mv("Bot", 2, 3), Mv("Bot", 3, 2), Mv("Bot", 4, 5), Mv("Bot", 5, 4)}

\* the field texts in use that are unsigned decimal integers
DecimalTexts == {"0", "1", "2", "3", "4", "5", "6", "7", "8"}

\* C16: Position.parse succeeds exactly when the text split on commas has
\* two fields, both unsigned decimal integers; every other text (one field,
\* three or more, a field that is no unsigned integer) gives a ParseError.
C16_PositionParsing ==
    (last.op = "position_parse") =>
        /\ out.kind \in {"Ok", "Err"}
        /\ (out.kind = "Ok") <=>
              (/\ Len(req.position) = 2
               /\ \A i \in 1 .. Len(req.position) : req.position[i] \in DecimalTexts)

\* what a character of a board text stands for
CellOfChar(ch) ==
    IF ch = "D" THEN "Dark" ELSE IF ch = "L" THEN "Light" ELSE "None"

\* C17: for a text of at most 8 lines of at most 8 characters from {E,D,L},
\* Board.parse returns the standard start with exactly the cells that have a
\* character in the text overwritten by what it stands for; and parsing the
\* text form of a board returns that board.
C17_BoardTextOverlay ==
    (hist # <<>>) =>
        /\ (LastCall.op = "parse" /\ InBoardFormat(LastCall.text)) =>
               /\ LastCall.kind = "Ok"
               /\ \A r \in Index, c \in Index :
                     grid[r][c] =
                        IF r < Len(LastCall.text) /\ c < Len(LastCall.text[r + 1])
                        THEN CellOfChar(LastCall.text[r + 1][c + 1])
                        ELSE StandardCell(r, c)
        /\ (LastCall.op = "reparse") =>
               /\ LastCall.kind = "Ok"
               /\ grid = LastCall.grid

\* a text of four short lines was parsed: the cells it names are overwritten,
\* the centre cells it leaves out keep the standard start
C17_Witness ==
    /\ hist # <<>>
    /\ LastCall.op = "parse" /\ LastCall.text = TextShort /\ LastCall.kind = "Ok"
    /\ grid[0][0] = "Light" /\ grid[0][2] = "Dark" /\ grid[3][4] = "Light"
    /\ grid[3][3] = "None" /\ grid[4][4] = "Dark"

\* the step of each compass direction, as (row, column)
CompassStep(dir) ==
    CASE dir = "North"     -> <<-1, 0>>
      [] dir = "South"     -> <<1, 0>>
      [] dir = "East"      -> <<0, 1>>
      [] dir = "West"      -> <<0, -1>>
      [] dir = "NorthEast" -> <<-1, 1>>
      [] dir = "NorthWest" -> <<-1, -1>>
      [] dir = "SouthEast" -> <<1, 1>>
      [] dir = "SouthWest" -> <<1, -1>>

\* C18: for an in-bounds position and a direction, neighbour returns the
\* position one step in that direction when it is on the 8x8 board and none
\* otherwise; in particular a step off row 0 or column 0 returns none.
C18_NeighbourGeometry ==
    (last.op = "neighbour") =>
        LET r == last.placement.row + CompassStep(last.dir)[1]
            c == last.placement.col + CompassStep(last.dir)[2]
        IN  out.position = IF r >= 0 /\ r <= 7 /\ c >= 0 /\ c <= 7
                           THEN <<[row |-> r, col |-> c]>>
                           ELSE <<>>

\* the step north-west from the corner (0,0) leaves the board
C18_Witness ==
    /\ last.op = "neighbour"
    /\ last.placement = [row |-> 0, col |-> 0]
    /\ last.dir = "NorthWest"
    /\ out.kind = "Ok"
    /\ out.position = <<>>

-----------------------------------------------------------------------------
(* Properties of Bot::decide and of the phase                               *)

\* C19: decide called with a game in which it is Human's turn aborts on its
\* assertion and returns no decision.
C19_DecidePrecondition ==
    (last.op = "decide" /\ game.current_player = "Human") =>
        /\ out.kind = "Panic"
        /\ out.decision = <<>>

\* the phase of a turn count
PhaseOfTurn(turn) ==
    IF turn < 20 THEN "Early" ELSE IF turn < 40 THEN "Mid" ELSE "End"

\* C20: in every Game reached from Game.new() or Game.parse by result
\* applications, the stored phase is the phase of the board's turn count
\* dark + light - 4.
C20_PhaseConsistency ==
    game.phase = PhaseOfTurn(Count(game.board, "Dark") + Count(game.board, "Light") - 4)

\* the greatest value in the trace of the root loop, and the last index at
\* which it stands
TopValue(trace) ==
    CHOOSE v \in {trace[i].value : i \in 1 .. Len(trace)} :
        \A i \in 1 .. Len(trace) : trace[i].value <= v

LastTop(trace) ==
    CHOOSE i \in 1 .. Len(trace) :
        /\ trace[i].value = TopValue(trace)
        /\ \A j \in (i + 1) .. Len(trace) : trace[j].value # TopValue(trace)

\* C21: with Bot's legal actions taken in enumeration order, decide returns
\* the last action in that order whose value equals the greatest value found
\* over all the actions, never an earlier action with the same value.
C21_RootTieBreak ==
    (last.op = "decide" /\ last.trace # <<>>) =>
        /\ {last.trace[i].action : i \in 1 .. Len(last.trace)} = actions(game, "Bot")
        /\ out.kind = "Ok"
        /\ out.decision = <<last.trace[LastTop(last.trace)].action>>

\* every memo entry holds the static evaluation of its game
MemoCoherent ==
    \A g \in DOMAIN bot.minimax_cache : bot.minimax_cache[g] = evaluate(g)

\* a step keeps every memo entry with its value
MemoKept ==
    \A g \in DOMAIN bot.minimax_cache :
        /\ g \in DOMAIN bot'.minimax_cache
        /\ bot'.minimax_cache[g] = bot.minimax_cache[g]

\* a decide call on a Bot that has decided before returns what the same call
\* returns on a fresh Bot of the same depth limit
SameAsFresh ==
    (last.op = "decide" /\ calls >= 2) =>
        \A fresh \in {decide(BotNew(bot.depth_limit), game, last.ord)} :
            /\ out.kind = fresh.kind
            /\ (fresh.kind = "Ok") =>
                  (out.decision = <<fresh.action>> /\ out.result = <<fresh.result>>)

\* C22: after any sequence of decide calls on one Bot every memo entry (g, v)
\* has v = g.evaluate(), no entry is removed or given another value, and a
\* decide call on the Bot with its populated memo returns the same action and
\* resulting state as the same call on a fresh Bot with the same depth limit.
C22_MemoCoherence ==
    /\ [](MemoCoherent /\ SameAsFresh)
    /\ [][MemoKept]_vars

\* the second decide call on the same game, every cut-off state in the memo
C22_Witness ==
    /\ calls = 2
    /\ last.op = "decide"
    /\ out.kind = "Ok"
    /\ prev = game
    /\ DOMAIN bot.minimax_cache # {}

-----------------------------------------------------------------------------
(* Properties of the rules engine, continued                                *)

\* the game whose 64 cells are Light, in the phase of its turn count 60
AllLightGame ==
    [board |-> [r \in Index |-> [c \in Index |-> "Light"]],
     current_player |-> "Bot",
     phase |-> PhaseOfTurn(64 - 4),
     winner |-> "Bot"]

\* C23: max_best_evaluation() is the static evaluation of the board with all
\* 64 cells Light in phase End, that is twice the sum of all position weights,
\* 1584; min_best_evaluation() is its negation; every call returns that value.
C23_ExtremalConstants ==
    /\ (last.op = "max_best_evaluation") =>
          /\ out.value = evaluate(AllLightGame)
          /\ out.value = 2 * SumWeights(PositionAll)
          /\ out.value = 1584
    /\ (last.op = "min_best_evaluation") => out.value = -1584

\* the constant asked for after moves have been made
C23_Witness ==
    /\ last.op = "min_best_evaluation"
    /\ moves >= 1
    /\ out.value = -1584

OtherPlayer(player) == IF player = "Bot" THEN "Human" ELSE "Bot"

ColourOf(player) == IF player = "Bot" THEN "Light" ELSE "Dark"

\* C24: after result(action) the current player is the opponent of
\* action.player, whoever was the current player of the input game and even
\* when that opponent has no legal action in the resulting position.
C24_TurnPassing ==
    (last.op = "result") => game.current_player = OtherPlayer(last.player)

\* the acting player was not the current player of the input game, and the
\* player the turn passes to has no legal action while the acting player has
C24_Witness ==
    /\ last.op = "result"
    /\ prev.current_player # last.player
    /\ game.current_player = OtherPlayer(last.player)
    /\ LegalCells(game.board, game.current_player) = {}
    /\ LegalCells(game.board, last.player) # {}

\* C25: every action a yielded by actions(p) has an in-bounds empty target,
\* result(a) does not abort, changes besides the target only occupied cells
\* and flips at least one disk of the opponent; and every empty cell at which
\* a disk of p would flip at least one disk is yielded by actions(p).
C25_ActionsResultAgree ==
    (last.op = "actions") =>
        /\ \A a \in out.acts :
              /\ a.player = last.player
              /\ OnBoard(a.placement.row, a.placement.col)
              /\ game.board[a.placement.row][a.placement.col] = "None"
              /\ ~ResultAborts(game, a)
              /\ \A after \in {result(game, a).board} :
                    /\ \A r \in Index, c \in Index :
                          (/\ <<r, c>> # <<a.placement.row, a.placement.col>>
                           /\ after[r][c] # game.board[r][c]) =>
                              game.board[r][c] # "None"
                    /\ Count(after, ColourOf(OtherPlayer(last.player)))
                          < Count(game.board, ColourOf(OtherPlayer(last.player)))
        /\ \A cell \in LegalCells(game.board, last.player) :
              [player |-> last.player, placement |-> cell] \in out.acts

\* a player with several actions on a board reached by a move
C25_Witness ==
    /\ last.op = "actions"
    /\ moves >= 1
    /\ Cardinality(out.acts) >= 3
    /\ \E a \in out.acts :
          Count(result(game, a).board, ColourOf(OtherPlayer(last.player)))
             <= Count(game.board, ColourOf(OtherPlayer(last.player))) - 2

\* the cell lies on one of the 8 straight rays from pos (or is pos)
OnRayFrom(pos, r, c) ==
    \/ r = pos.row
    \/ c = pos.col
    \/ r - pos.row = c - pos.col
    \/ r - pos.row = pos.col - c

\* C26: result(action) leaves unchanged every cell off the 8 straight rays
\* from the placement, empties no cell, and raises the number of disks on the
\* board by exactly 1.
C26_FrameOfMove ==
    (last.op = "result") =>
        /\ \A r \in Index, c \in Index :
              /\ ~OnRayFrom(last.placement, r, c) => game.board[r][c] = prev.board[r][c]
              /\ prev.board[r][c] # "None" => game.board[r][c] # "None"
        /\ Count(game.board, "Dark") + Count(game.board, "Light")
              = Count(prev.board, "Dark") + Count(prev.board, "Light") + 1

\* a move that flipped disks in two or more directions
C26_Witness ==
    /\ last.op = "result"
    /\ Cardinality({d \in Deltas :
           /\ OnBoard(last.placement.row + d[1], last.placement.col + d[2])
           /\ prev.board[last.placement.row + d[1]][last.placement.col + d[2]]
                 # game.board[last.placement.row + d[1]][last.placement.col + d[2]]}) >= 2

\* C28: on a board holding fewer than 4 disks Game::parse computes the turn
\* without wrapping below zero and yields a Game whose phase is Early.
C28_TurnNeverUnderflows ==
    (/\ last.op = "parse"
     /\ Count(game.board, "Dark") + Count(game.board, "Light") < INITIAL_NUM_DISKS) =>
        game.phase = "Early"

Disks(board) == Count(board, "Dark") + Count(board, "Light")

\* decide with the depth limit set to the number of empty cells
DecideWithin(ord) ==
    decide([bot EXCEPT !.depth_limit = BOARD_SIZE * BOARD_SIZE - Disks(game.board),
                       !.minimax_cache = <<>>],
           game, ord)

\* C27: a chain of results of legal actions from a board with d disks holds
\* d + n disks after n moves, so it has at most 64 - d moves; no action is
\* left for either player exactly when is_over holds; and decide with a
\* very large depth limit returns, never reaches the limit (the memo stays
\* empty) and answers as decide with the number of empty cells as limit.
C27_GamesAndSearchTerminate ==
    /\ Disks(game.board) = Disks(grid) + moves
    /\ moves <= BOARD_SIZE * BOARD_SIZE - Disks(grid)
    /\ is_over(game) <=>
          LegalCells(game.board, "Bot") \cup LegalCells(game.board, "Human") = {}
    /\ moves = BOARD_SIZE * BOARD_SIZE - Disks(grid) => is_over(game)
    /\ (last.op = "decide") =>
          /\ out.kind \in {"Ok", "Err", "Panic"}
          /\ bot.depth_limit = BigDepth
          /\ bot.minimax_cache = <<>>
          /\ \A d \in {DecideWithin(last.ord)} :
                /\ d.kind = out.kind
                /\ d.kind = "Ok" => <<d.action>> = out.decision /\ <<d.result>> = out.result
                /\ d.bot.num_nodes_expanded = bot.num_nodes_expanded

\* a chain of 5 moves, one of them decided by the Bot with the large depth
\* limit, that filled the board
C27_Witness ==
    /\ moves = BOARD_SIZE * BOARD_SIZE - Disks(grid)
    /\ moves >= 5
    /\ calls >= 1
    /\ bot.depth_limit = BigDepth
    /\ bot.num_nodes_expanded >= 5
    /\ is_over(game)

====
